---- MODULE Spec2Model ----
(***************************************************************************)
(* A model of the GoogleTranslate filter of ldc-google                     *)
(* (src/src/ldc_google/filter/_google_translate.py).                       *)
(*                                                                         *)
(* Text is a sequence of one-character strings.  Python's None is the      *)
(* value None below; no project id, language code or text of the model     *)
(* equals it.  The remote translation service is opaque: what it answers   *)
(* to a request is an input of the action that sends the request.          *)
(***************************************************************************)
EXTENDS Integers, Sequences, FiniteSets, TLC

VARIABLES
  alive,          \* an adapter object exists (__init__ returned)
  project_id, source_lang, target_lang, split_lines, location,
  _client,        \* None, or the TranslationServiceClient handle
  _count,         \* self._count
  heap,           \* the objects of the last process call: id -> object
  data,           \* id of the record the caller passed to process, or 0
  result,         \* id of the record process returned, or 0
  before,         \* the caller's objects as they were when process was called
  calls,          \* the _translate invocations of the last operation, in order
  lastOp,         \* the operation that ran last
  raised,         \* None, or the exception the last operation raised
  reported,       \* the count the last operation logged (finalize), or -1
  nonBlankChars,  \* history: total length of the non-blank texts given to _translate
  requestSent,    \* history: some request reached the remote service
  ctorLocation,   \* the location argument, when the last operation is __init__
  prev            \* self._count and self._client when the last operation was called

vars == <<alive, project_id, source_lang, target_lang, split_lines, location,
          _client, _count, heap, data, result, before, calls, lastOp, raised,
          reported, nonBlankChars, requestSent, ctorLocation, prev>>

None == "None"

----------------------------------------------------------------------------
(* Bounds of the model *)

MaxLen == 3      \* longest text handed to _translate directly
MaxSegs == 2     \* most segments in one answer of the service
MaxCount == 3    \* process is explored while _count < MaxCount
MaxDirect == 2   \* direct calls of _translate are explored while _count < MaxDirect
MaxLocs == 2     \* most names in a location list given on the command line

----------------------------------------------------------------------------
(* Text *)

Chars == {"a", " ", "\n"}
Whitespace == {" ", "\n"}

Texts(n) == UNION {[1..k -> Chars] : k \in 0..n}

\* s.strip(): s without its leading and trailing whitespace
RECURSIVE LStrip(_)
LStrip(s) ==
  IF s = <<>> THEN s
  ELSE IF Head(s) \in Whitespace THEN LStrip(Tail(s)) ELSE s

RECURSIVE RStrip(_)
RStrip(s) ==
  IF s = <<>> THEN s
  ELSE IF s[Len(s)] \in Whitespace THEN RStrip(SubSeq(s, 1, Len(s) - 1)) ELSE s

Strip(s) == RStrip(LStrip(s))

\* s.split("\n"): the pieces between newlines, empty ones included
RECURSIVE SplitFrom(_, _)
SplitFrom(s, cur) ==
  IF s = <<>> THEN <<cur>>
  ELSE IF Head(s) = "\n" THEN <<cur>> \o SplitFrom(Tail(s), <<>>)
  ELSE SplitFrom(Tail(s), Append(cur, Head(s)))

Split(s) == SplitFrom(s, <<>>)

\* "\n".join(segs)
RECURSIVE Join(_)
Join(segs) ==
  IF segs = <<>> THEN <<>>
  ELSE IF Len(segs) = 1 THEN segs[1]
  ELSE segs[1] \o <<"\n">> \o Join(Tail(segs))

IsNonEmptyLine(line) == Len(line) > 0

\* ldc.text_utils.remove_empty: the lines that are not empty, in order
remove_empty(lines) == SelectSeq(lines, IsNonEmptyLine)

----------------------------------------------------------------------------
(* Locations (ldc.core) *)

LOCATION_ANY == "any"
LOCATION_INSTRUCTION == "instruction"
LOCATION_INPUT == "input"
LOCATION_OUTPUT == "output"
LOCATION_CONTENT == "content"
LOCATIONS == {LOCATION_ANY, LOCATION_INSTRUCTION, LOCATION_INPUT,
              LOCATION_OUTPUT, LOCATION_CONTENT}

\* A location value is a str or a list of str: [kind, val], val the names.
StrLoc(l) == [kind |-> "str", val |-> <<l>>]
ListLoc(ls) == [kind |-> "list", val |-> ls]
Names(loc) == {loc.val[i] : i \in 1..Len(loc.val)}

\* ldc.core.locations_match(locations, required)
locations_match(locations, required) ==
  LOCATION_ANY \in Names(locations) \/ required \in Names(locations)

----------------------------------------------------------------------------
(* The remote service: an answer is an error or a list of translated segments *)

Segs == {<<"x">>, <<"y">>}
OkResponse(segs) == [ok |-> TRUE, translations |-> segs]
ErrResponse == [ok |-> FALSE, translations |-> <<>>]
Responses(n) == {ErrResponse} \cup {OkResponse(t) : t \in UNION {[1..k -> Segs] : k \in 0..n}}

----------------------------------------------------------------------------
(* GoogleTranslate._translate *)

\* A faulty variant: only the empty text is skipped
IsSkippedNoStrip(s) == Len(s) = 0

\* "if len(s.strip()) == 0: return s"
IsSkipped(s) == Len(Strip(s)) = 0

\* A faulty variant: the empty lines are sent too
ContentsKeepEmpty(self, s) ==
  IF self.split_lines THEN Split(s) ELSE <<s>>

\* the segments of the request
Contents(self, s) ==
  IF self.split_lines THEN remove_empty(Split(s)) ELSE <<s>>

RECURSIVE TotalLen(_)
TotalLen(segs) == IF segs = <<>> THEN 0 ELSE Len(segs[1]) + TotalLen(Tail(segs))

\* A faulty variant: the segments sent are counted, not the text
CountedSegments(self, s) == TotalLen(Contents(self, s))

\* "self._count += len(s)": what is added
Counted(self, s) == Len(s)

Request(self, s) ==
  [parent |-> <<"projects", self.project_id, "locations", "global">>,
   contents |-> Contents(self, s),
   mime_type |-> "text/plain",
   source_language_code |-> self.source_lang,
   target_language_code |-> self.target_lang]

\* A faulty variant: no fallback to the input
ReconstructAlwaysJoin(s, translated) == Join(translated)

\* result = s; if len(translated) > 0: result = "\n".join(translated)
Reconstruct(s, translated) ==
  IF Len(translated) > 0 THEN Join(translated) ELSE s

\* _translate(s) when the service answers r to the request, if one is sent:
\* what is returned (ret), self._count afterwards, the requests sent, the
\* segments the service answered, and the exception raised (then ret is not a
\* value).
Translate(self, s, r) ==
  IF IsSkipped(s)
  THEN [ret |-> s, count |-> self._count, requests |-> <<>>, answer |-> <<>>,
        raised |-> None]
  ELSE LET cnt == self._count + Counted(self, s)
       IN IF self._client = None
          THEN [ret |-> <<>>, count |-> cnt, requests |-> <<>>, answer |-> <<>>,
                raised |-> "AttributeError"]
          ELSE IF ~r.ok
          THEN [ret |-> <<>>, count |-> cnt, requests |-> <<Request(self, s)>>,
                answer |-> <<>>, raised |-> "ServiceError"]
          ELSE [ret |-> Reconstruct(s, r.translations), count |-> cnt,
                requests |-> <<Request(self, s)>>, answer |-> r.translations,
                raised |-> None]

\* the log entry of an invocation of _translate(s) for the text called role,
\* made when self._count was c, with outcome t
CallRecord(role, s, c, t) ==
  [role |-> role, s |-> s, countBefore |-> c, countAfter |-> t.count,
   requests |-> t.requests, answer |-> t.answer, ret |-> t.ret,
   raised |-> t.raised]

----------------------------------------------------------------------------
(* Records and the heap.  A heap is a sequence of objects; an object's id is *)
(* its index.  A TranslationData holds the id of its translations dict.      *)

PairData(ins, inp, out) ==
  [type |-> "PairData", instruction |-> ins, input |-> inp, output |-> out]
PretrainData(c) == [type |-> "PretrainData", content |-> c]
TranslationData(d) == [type |-> "TranslationData", translations |-> d]
Dict(items) == [type |-> "dict", items |-> items]
OtherData == [type |-> "Other"]

\* A faulty variant: copy.copy: a new record that shares the dict
deepcopyShallow(h, d) == [heap |-> Append(h, h[d]), id |-> Len(h) + 1]

\* copy.deepcopy(data): a new record, and a new dict for a TranslationData
deepcopy(h, d) ==
  IF h[d].type = "TranslationData"
  THEN LET h1 == Append(h, h[h[d].translations])
           h2 == Append(h1, [h[d] EXCEPT !.translations = Len(h1)])
       IN [heap |-> h2, id |-> Len(h2)]
  ELSE [heap |-> Append(h, h[d]), id |-> Len(h) + 1]

\* d[k] = v on a dict's items
DictSet(items, k, v) ==
  [j \in DOMAIN items \cup {k} |-> IF j = k THEN v ELSE items[j]]

\* One invocation of self._translate(s) within _do_process, from the
\* execution state x = [heap, count, calls, raised]: the call is logged, the
\* count and the exception, if any, are taken over.
Invoke(self, x, role, s, r) ==
  LET t == Translate([self EXCEPT !._count = x.count], s, r)
  IN [heap |-> x.heap, count |-> t.count,
      calls |-> Append(x.calls, CallRecord(role, s, x.count, t)),
      raised |-> t.raised]

\* the text the last invocation returned
Returned(x) == x.calls[Len(x.calls)].ret

\* "if locations_match(self.location, LOC): result.fld = self._translate(result.fld)"
TranslateField(self, x, rid, loc, fld, resp) ==
  IF x.raised = None /\ locations_match(self.location, loc)
  THEN LET y == Invoke(self, x, fld, x.heap[rid][fld], resp[fld])
       IN IF y.raised = None
          THEN [y EXCEPT !.heap[rid][fld] = Returned(y)]
          ELSE y
  ELSE x

\* A faulty variant: the input is translated when the output is selected
ProcessPairWrongLocation(self, x, rid, resp) ==
  LET x1 == TranslateField(self, x, rid, LOCATION_INSTRUCTION, "instruction", resp)
      x2 == TranslateField(self, x1, rid, LOCATION_OUTPUT, "input", resp)
  IN TranslateField(self, x2, rid, LOCATION_OUTPUT, "output", resp)

ProcessPair(self, x, rid, resp) ==
  LET x1 == TranslateField(self, x, rid, LOCATION_INSTRUCTION, "instruction", resp)
      x2 == TranslateField(self, x1, rid, LOCATION_INPUT, "input", resp)
  IN TranslateField(self, x2, rid, LOCATION_OUTPUT, "output", resp)

ProcessPretrain(self, x, rid, resp) ==
  TranslateField(self, x, rid, LOCATION_CONTENT, "content", resp)

\* A faulty variant: the translation replaces the source text
StoreKeySource(self) == self.source_lang

\* the key the translated text is stored under
StoreKey(self) == self.target_lang

\* "if self.source_lang in result.translations:
\*      result.translations[self.target_lang] = self._translate(...)"
ProcessTranslation(self, x, rid, resp) ==
  LET did == x.heap[rid].translations
      items == x.heap[did].items
  IN IF self.source_lang \in DOMAIN items
     THEN LET y == Invoke(self, x, "translations", items[self.source_lang],
                          resp["translations"])
          IN IF y.raised = None
             THEN [y EXCEPT !.heap[did].items = DictSet(@, StoreKey(self), Returned(y))]
             ELSE y
     ELSE x

\* _do_process(data) on heap h: the heap afterwards, the id of the returned
\* record (0 when an exception is raised), self._count, the _translate
\* invocations made, and the exception raised.
DoProcess(self, h, d, resp) ==
  LET c == deepcopy(h, d)
      x == [heap |-> c.heap, count |-> self._count, calls |-> <<>>, raised |-> None]
      t == c.heap[c.id].type
      y == IF t = "PairData" THEN ProcessPair(self, x, c.id, resp)
           ELSE IF t = "PretrainData" THEN ProcessPretrain(self, x, c.id, resp)
           ELSE IF t = "TranslationData" THEN ProcessTranslation(self, x, c.id, resp)
           ELSE [x EXCEPT !.raised = "Unhandled data type"]
  IN [heap |-> y.heap, result |-> IF y.raised = None THEN c.id ELSE 0,
      count |-> y.count, calls |-> y.calls, raised |-> y.raised]

----------------------------------------------------------------------------
(* Inputs *)

ProjectIds == {None, "p"}
Langs == {None, "en", "de"}

\* texts of record fields: a blank one and one with a line break
RecordTexts == {<<" ">>, <<"a", "\n">>}

\* What the caller hands to process: a heap holding the record at id 1 (and,
\* for a TranslationData, its dict at id 2).
PairHeaps ==
  {<<PairData(a, b, c)>> : a \in RecordTexts, b \in RecordTexts, c \in RecordTexts}
PretrainHeaps == {<<PretrainData(c)>> : c \in RecordTexts}
Dicts == UNION {[K -> RecordTexts] : K \in SUBSET {"en", "de", "fr"}}
TranslationHeaps == {<<TranslationData(2), Dict(d)>> : d \in Dicts}
OtherHeaps == {<<OtherData>>}

\* the texts of a record a request may be made for
RolesOf(rec) ==
  IF rec.type = "PairData" THEN {"instruction", "input", "output"}
  ELSE IF rec.type = "PretrainData" THEN {"content"}
  ELSE IF rec.type = "TranslationData" THEN {"translations"}
  ELSE {}

\* the location argument of the constructor: a str, valid or not, or a list
CtorLocations ==
  {StrLoc(l) : l \in LOCATIONS \cup {"bogus"}}
  \cup {ListLoc(<<l>>) : l \in {LOCATION_INPUT, "bogus"}}

\* ns.location: the list the argument parser delivers, of names it accepted;
\* the lists of at most n names, each in the order of LocationOrder
LocationOrder ==
  <<LOCATION_ANY, LOCATION_INSTRUCTION, LOCATION_INPUT, LOCATION_OUTPUT,
    LOCATION_CONTENT>>
ListOf(S) ==
  LET In(l) == l \in S IN ListLoc(SelectSeq(LocationOrder, In))
ArgLocations(n) ==
  {ListOf(S) : S \in {T \in SUBSET LOCATIONS : T # {} /\ Cardinality(T) <= n}}

\* the service's answers in the life of an adapter: an error, nothing, a segment
Answers == {ErrResponse, OkResponse(<<>>), OkResponse(<< <<"x">> >>)}

----------------------------------------------------------------------------
(* The adapter *)

Self ==
  [project_id |-> project_id, source_lang |-> source_lang,
   target_lang |-> target_lang, split_lines |-> split_lines,
   location |-> location, _client |-> _client, _count |-> _count]

\* no location argument
NoLocation == ListLoc(<<>>)

Init ==
  /\ alive = FALSE
  /\ project_id = None /\ source_lang = None /\ target_lang = None
  /\ split_lines = FALSE /\ location = StrLoc(LOCATION_ANY)
  /\ _client = None /\ _count = 0
  /\ heap = <<>> /\ data = 0 /\ result = 0 /\ before = <<>>
  /\ calls = <<>> /\ lastOp = "none" /\ raised = None
  /\ reported = -1 /\ nonBlankChars = 0 /\ requestSent = FALSE
  /\ ctorLocation = NoLocation
  /\ prev = [count |-> 0, client |-> None]

\* "location not in LOCATIONS" is false: the value is one of the names (a list
\* is never equal to a name)
InLocations(loc) == loc.kind = "str" /\ loc.val[1] \in LOCATIONS

\* the operation makes no call of _translate
NoCall ==
  /\ heap' = <<>> /\ data' = 0 /\ result' = 0 /\ before' = <<>> /\ calls' = <<>>
  /\ prev' = [count |-> _count, client |-> _client]
  /\ UNCHANGED <<nonBlankChars, requestSent>>

\* the operation is not the constructor and logs nothing
Quiet == reported' = -1 /\ ctorLocation' = NoLocation

\* GoogleTranslate(project_id, source_lang, target_lang, split_lines, location)
Construct(pid, src, tgt, split, loc) ==
  /\ ~alive
  /\ lastOp' = "__init__"
  /\ ctorLocation' = loc
  /\ IF ~InLocations(loc)
     THEN /\ raised' = "Invalid location"
          /\ UNCHANGED <<alive, project_id, source_lang, target_lang, split_lines,
                         location, _client, _count>>
     ELSE /\ raised' = None
          /\ alive' = TRUE
          /\ project_id' = pid /\ source_lang' = src /\ target_lang' = tgt
          /\ split_lines' = split /\ location' = loc
          /\ _client' = None /\ _count' = 0
  /\ NoCall
  /\ reported' = -1

\* _apply_args(ns)
ApplyArgs(pid, src, tgt, split, loc) ==
  /\ alive
  /\ lastOp' = "_apply_args" /\ raised' = None
  /\ project_id' = pid /\ source_lang' = src /\ target_lang' = tgt
  /\ split_lines' = split /\ location' = loc
  /\ NoCall /\ Quiet
  /\ UNCHANGED <<alive, _client, _count>>

\* the exception initialize raises for the configuration, or None
InitializeError(self) ==
  IF self.project_id = None THEN "No Google Cloud project ID provided!"
  ELSE IF self.source_lang = None THEN "Language for the incoming text not provided!"
  ELSE IF self.target_lang = None THEN "No language specified in which to translate!"
  ELSE None

\* self after initialize() returned
Initialized(self) ==
  [self EXCEPT !.location = IF @.kind = "str" THEN ListLoc(@.val) ELSE @,
               !._client = "TranslationServiceClient"]

\* A faulty variant: the client is created before the configuration is checked
AfterInitializeEager(self) == Initialized(self)

\* A faulty variant: initialize resets the counter
AfterInitializeReset(self) ==
  IF InitializeError(self) # None THEN self
  ELSE [Initialized(self) EXCEPT !._count = 0]

\* self after initialize(), whether it returned or raised
AfterInitialize(self) ==
  IF InitializeError(self) # None THEN self ELSE Initialized(self)

Initialize ==
  /\ alive
  /\ lastOp' = "initialize"
  /\ raised' = InitializeError(Self)
  /\ LET s == AfterInitialize(Self)
     IN /\ location' = s.location
        /\ _client' = s._client
        /\ _count' = s._count
  /\ NoCall /\ Quiet
  /\ UNCHANGED <<alive, project_id, source_lang, target_lang, split_lines>>

IsBlank(s) == \A i \in 1..Len(s) : s[i] \in Whitespace

RECURSIVE NonBlankLen(_)
NonBlankLen(cs) ==
  IF cs = <<>> THEN 0
  ELSE (IF IsBlank(cs[1].s) THEN 0 ELSE Len(cs[1].s)) + NonBlankLen(Tail(cs))

AnyRequest(cs) == \E i \in 1..Len(cs) : cs[i].requests # <<>>

\* process(record): h is the caller's heap with the record at id 1, resp the
\* service's answer to the request made for each text, if one is made
Process(h, resp) ==
  /\ alive
  /\ _count < MaxCount
  /\ lastOp' = "process"
  /\ \E p \in {DoProcess(Self, h, 1, resp)} :
        /\ heap' = p.heap /\ data' = 1 /\ result' = p.result
        /\ before' = h
        /\ _count' = p.count
        /\ calls' = p.calls
        /\ raised' = p.raised
        /\ nonBlankChars' = nonBlankChars + NonBlankLen(p.calls)
        /\ requestSent' = (requestSent \/ AnyRequest(p.calls))
  /\ prev' = [count |-> _count, client |-> _client]
  /\ Quiet
  /\ UNCHANGED <<alive, project_id, source_lang, target_lang, split_lines,
                 location, _client>>

\* a direct call self._translate(s), answered r by the service
TranslateCall(s, r) ==
  /\ alive
  /\ _count < MaxDirect
  /\ lastOp' = "_translate"
  /\ \E t \in {Translate(Self, s, r)} :
        /\ _count' = t.count
        /\ calls' = <<CallRecord("text", s, _count, t)>>
        /\ raised' = t.raised
        /\ nonBlankChars' = nonBlankChars + (IF IsBlank(s) THEN 0 ELSE Len(s))
        /\ requestSent' = (requestSent \/ t.requests # <<>>)
  /\ heap' = <<>> /\ data' = 0 /\ result' = 0 /\ before' = <<>>
  /\ prev' = [count |-> _count, client |-> _client]
  /\ Quiet
  /\ UNCHANGED <<alive, project_id, source_lang, target_lang, split_lines,
                 location, _client>>

\* finalize(): logs "# characters: %d" % self._count
Finalize ==
  /\ alive
  /\ lastOp' = "finalize" /\ raised' = None
  /\ reported' = _count /\ ctorLocation' = NoLocation
  /\ NoCall
  /\ UNCHANGED <<alive, project_id, source_lang, target_lang, split_lines,
                 location, _client, _count>>

\* The operations of the adapter's life, their inputs drawn from the given sets.
Step(PIDS, SRCS, TGTS, SPLITS, CLOCS, ALOCS, HEAPS, ANSWERS) ==
  \/ \E pid \in PIDS, src \in SRCS, tgt \in TGTS, split \in SPLITS, loc \in CLOCS :
        Construct(pid, src, tgt, split, loc)
  \/ \E pid \in PIDS, src \in SRCS, tgt \in TGTS, split \in SPLITS, loc \in ALOCS :
        ApplyArgs(pid, src, tgt, split, loc)
  \/ Initialize
  \/ \E h \in HEAPS : \E resp \in [RolesOf(h[1]) -> ANSWERS] : Process(h, resp)
  \/ Finalize

\* every configuration, a few records
LifeHeaps ==
  PretrainHeaps \cup OtherHeaps \cup {<<PairData(<<"a", "\n">>, <<" ">>, <<"a", "\n">>)>>}
Next ==
  Step(ProjectIds, {None, "en"}, {None, "de"}, BOOLEAN, CtorLocations,
       {ListLoc(<<LOCATION_INPUT>>)}, LifeHeaps, Answers)
Spec == Init /\ [][Next]_vars

\* every location, Pair and Pretrain records
NextPairs ==
  Step({"p"}, {"en"}, {"de"}, {FALSE}, CtorLocations, ArgLocations(MaxLocs),
       PairHeaps \cup PretrainHeaps, Answers)
SpecPairs == Init /\ [][NextPairs]_vars

\* every kind of record
NextRecords ==
  Step({"p"}, {"en"}, {"en", "de"}, {FALSE},
       {StrLoc(LOCATION_ANY), StrLoc(LOCATION_INPUT), ListLoc(<<LOCATION_INPUT>>)},
       {ListLoc(<<LOCATION_CONTENT>>)},
       PairHeaps \cup PretrainHeaps \cup TranslationHeaps \cup OtherHeaps,
       Answers)
SpecRecords == Init /\ [][NextRecords]_vars

\* every pair of languages, Translation records
NextTranslations ==
  Step({"p"}, Langs, Langs, {FALSE},
       {StrLoc(LOCATION_ANY), StrLoc(LOCATION_INPUT), ListLoc(<<LOCATION_INPUT>>)},
       {ListLoc(<<LOCATION_CONTENT>>)}, TranslationHeaps, Answers)
SpecTranslations == Init /\ [][NextTranslations]_vars

\* _translate on every text
NextTranslate ==
  \/ \E split \in BOOLEAN : Construct("p", "en", "de", split, StrLoc(LOCATION_ANY))
  \/ Initialize
  \/ \E s \in Texts(MaxLen), r \in Responses(MaxSegs) : TranslateCall(s, r)
  \/ Finalize
SpecTranslate == Init /\ [][NextTranslate]_vars

----------------------------------------------------------------------------
(* What the claims speak of *)

\* the role is selected by the location set: named in it, or "any" is
Selected(loc, role) == LOCATION_ANY \in Names(loc) \/ role \in Names(loc)

\* the places of s where a non-empty line starts, and where that line ends
LineStarts(s) ==
  {i \in 1..Len(s) : s[i] # "\n" /\ (i = 1 \/ s[i - 1] = "\n")}
LineEnd(s, i) ==
  CHOOSE j \in i..Len(s) :
    /\ \A k \in i..j : s[k] # "\n"
    /\ (j = Len(s) \/ s[j + 1] = "\n")

\* segs are exactly the non-empty lines of s, in their order in s
IsLinesOf(segs, s) ==
  /\ Len(segs) = Cardinality(LineStarts(s))
  /\ \A i \in LineStarts(s) :
       segs[Cardinality({j \in LineStarts(s) : j < i}) + 1] = SubSeq(s, i, LineEnd(s, i))

\* text is the segments in their order, one newline between neighbours
RECURSIVE IsJoinOf(_, _)
IsJoinOf(text, segs) ==
  IF Len(segs) = 0 THEN text = <<>>
  ELSE IF Len(segs) = 1 THEN text = segs[1]
  ELSE /\ Len(text) > Len(segs[1])
       /\ SubSeq(text, 1, Len(segs[1])) = segs[1]
       /\ text[Len(segs[1]) + 1] = "\n"
       /\ IsJoinOf(SubSeq(text, Len(segs[1]) + 2, Len(text)), Tail(segs))

Missing == project_id = None \/ source_lang = None \/ target_lang = None

Processed(type) == lastOp = "process" /\ raised = None /\ before[data].type = type

----------------------------------------------------------------------------
(* The claims *)

\* C1: process never mutates the record it is given. After process returned or
\* raised, every object of the caller is as it was before the call; the record
\* returned is a new object (with a new translations dict) of the same kind,
\* and apart from the texts selected for translation it equals the original.
C1_ProcessDoesNotMutate ==
  lastOp = "process" =>
    /\ Len(heap) >= Len(before)
    /\ \A id \in 1..Len(before) : heap[id] = before[id]
    /\ (raised = None =>
          LET old == before[data]
              new == heap[result]
          IN /\ result > Len(before)
             /\ new.type = old.type
             /\ IF old.type = "TranslationData"
                THEN /\ new.translations > Len(before)
                     /\ LET o == before[old.translations].items
                            n == heap[new.translations].items
                        IN /\ DOMAIN n = DOMAIN o \cup
                                (IF source_lang \in DOMAIN o THEN {target_lang} ELSE {})
                           /\ \A k \in DOMAIN o \ {target_lang} : n[k] = o[k]
                ELSE \A f \in RolesOf(old) :
                        ~Selected(location, f) => new[f] = old[f])

\* C1 witness: a Translation record was processed, the copy's mapping differs
\* from the caller's, which is as it was.
C1_Witness ==
  /\ Processed("TranslationData")
  /\ heap[heap[result].translations].items # before[2].items
  /\ heap[2] = before[2]

\* C2: for a Pair or Pretrain record, a field of the returned record is the
\* text _translate returned for the original field exactly when its role is
\* selected by the location set (named in it, or the set holds "any"); a field
\* that is not selected is the original's, and no call is made for it.
C2_SelectedFieldsTranslated ==
  (lastOp = "process" /\ raised = None
     /\ before[data].type \in {"PairData", "PretrainData"}) =>
    LET old == before[data]
        new == heap[result]
    IN \A f \in RolesOf(old) :
         LET made == {i \in 1..Len(calls) : calls[i].role = f}
         IN IF Selected(location, f)
            THEN /\ Cardinality(made) = 1
                 /\ \A i \in made : calls[i].s = old[f] /\ new[f] = calls[i].ret
            ELSE made = {} /\ new[f] = old[f]

\* C2 witness: a Pair record processed with location {input}: only input changed.
C2_Witness ==
  /\ Processed("PairData")
  /\ Names(location) = {LOCATION_INPUT}
  /\ heap[result].input # before[data].input
  /\ heap[result].instruction = before[data].instruction
  /\ heap[result].output = before[data].output

\* C3 as claimed: for a Translation record and every source_lang and
\* target_lang, if the source_lang key is present, the returned mapping's
\* target_lang entry is the translation of the source text, the source_lang
\* entry is unchanged and every other key is untouched; if it is absent the
\* mapping is the input's and no request is sent.
C3_Original ==
  Processed("TranslationData") =>
    LET o == before[before[data].translations].items
        n == heap[heap[result].translations].items
    IN IF source_lang \in DOMAIN o
       THEN /\ Len(calls) = 1 /\ calls[1].s = o[source_lang]
            /\ DOMAIN n = DOMAIN o \cup {target_lang}
            /\ n[target_lang] = calls[1].ret
            /\ n[source_lang] = o[source_lang]
            /\ \A k \in DOMAIN o \ {source_lang, target_lang} : n[k] = o[k]
       ELSE n = o /\ calls = <<>>

\* C3 as amended: the same, but the source_lang entry is unchanged only when
\* target_lang differs from source_lang (when they are the same key, that
\* entry holds the translation). The location plays no part.
C3_TranslationStoredUnderTarget ==
  Processed("TranslationData") =>
    LET o == before[before[data].translations].items
        n == heap[heap[result].translations].items
    IN IF source_lang \in DOMAIN o
       THEN /\ Len(calls) = 1 /\ calls[1].s = o[source_lang]
            /\ DOMAIN n = DOMAIN o \cup {target_lang}
            /\ n[target_lang] = calls[1].ret
            /\ (target_lang # source_lang => n[source_lang] = o[source_lang])
            /\ \A k \in DOMAIN o \ {source_lang, target_lang} : n[k] = o[k]
       ELSE n = o /\ calls = <<>>

\* C3 witness: source en, target de, the mapping had en, de and fr; de was
\* overwritten with the service's translation although the location is {content}.
C3_Witness ==
  /\ Processed("TranslationData")
  /\ source_lang = "en" /\ target_lang = "de"
  /\ Names(location) = {LOCATION_CONTENT}
  /\ DOMAIN before[2].items = {"en", "de", "fr"}
  /\ heap[heap[result].translations].items["de"] = <<"x">>

\* C4: for a text that is empty or only whitespace, _translate returns the
\* text, sends no request and leaves the counter as it was.
C4_BlankTextUntouched ==
  /\ \A i \in 1..Len(calls) :
       IsBlank(calls[i].s) =>
         /\ calls[i].raised = None
         /\ calls[i].ret = calls[i].s
         /\ calls[i].requests = <<>>
         /\ calls[i].countAfter = calls[i].countBefore
  /\ (lastOp = "_translate" /\ IsBlank(calls[1].s)) =>
       _count = prev.count /\ raised = None

\* C4 witness: a whitespace-only text of two characters was given after
\* characters had been counted.
C4_Witness ==
  /\ lastOp = "_translate"
  /\ calls[1].s = <<" ", "\n">>
  /\ prev.count > 0

\* C5: the counter is the sum of the lengths of the whole texts given to
\* _translate that were not empty or whitespace-only, over all calls so far,
\* and finalize reports that sum.
C5_CounterIsSumOfNonBlank ==
  /\ _count = nonBlankChars
  /\ lastOp = "finalize" => reported = nonBlankChars

\* C5 witness: finalize reported the count of two non-blank texts of a record
\* whose lines were split.
C5_Witness ==
  /\ lastOp = "finalize"
  /\ split_lines
  /\ reported = 4

\* C6: with split_lines a request for a non-blank text holds exactly the
\* non-empty lines of the text, in order, as the segments of one request;
\* without it the one segment is the text. The text returned is the segments
\* the service answered, in its order, joined with newlines.
C6_RequestSegments ==
  \A i \in 1..Len(calls) :
    /\ (~IsBlank(calls[i].s) /\ _client # None) => Len(calls[i].requests) = 1
    /\ \A k \in 1..Len(calls[i].requests) :
         IF split_lines
         THEN IsLinesOf(calls[i].requests[k].contents, calls[i].s)
         ELSE calls[i].requests[k].contents = <<calls[i].s>>
    /\ (calls[i].raised = None /\ calls[i].answer # <<>>) =>
         IsJoinOf(calls[i].ret, calls[i].answer)

\* C6 witness: a text of two lines was sent as two segments and the answer's
\* two segments came back joined.
C6_Witness ==
  /\ lastOp = "_translate" /\ split_lines
  /\ calls[1].s = <<"a", "\n", "a">>
  /\ Len(calls[1].requests) = 1
  /\ calls[1].requests[1].contents = << <<"a">>, <<"a">> >>
  /\ calls[1].ret = <<"x", "\n", "y">>

\* C7: when the service answers a request for a non-blank text with no
\* segment, _translate returns the text it was given, which is not empty.
C7_EmptyAnswerFallsBack ==
  \A i \in 1..Len(calls) :
    (calls[i].requests # <<>> /\ calls[i].raised = None /\ calls[i].answer = <<>>) =>
      calls[i].ret = calls[i].s /\ calls[i].ret # <<>>

\* C7 witness: a request was answered with no segment.
C7_Witness ==
  /\ lastOp = "_translate"
  /\ calls[1].requests # <<>> /\ calls[1].raised = None
  /\ calls[1].answer = <<>>

\* C8: initialize called without project_id, source_lang or target_lang
\* raises, creates no client and processes nothing; and as long as there is
\* no client, no request has been sent.
C8_MissingConfigRaises ==
  /\ (lastOp = "initialize" /\ Missing) =>
       raised # None /\ _client = prev.client /\ calls = <<>>
  /\ _client = None => ~requestSent

\* C8 witness: initialize raised for the missing target language, no client.
C8_Witness ==
  /\ lastOp = "initialize"
  /\ project_id # None /\ source_lang # None /\ target_lang = None
  /\ raised # None /\ _client = None

\* C9 as claimed: immediately after a call of initialize the counter is 0,
\* however many characters were counted before. Stated for the calls of the
\* claim's own sequence (initialize, process, ..., initialize): those that
\* return, made on an adapter that has sent requests.
C9_Original ==
  (lastOp = "initialize" /\ raised = None /\ requestSent) => _count = 0

\* C9 as amended: the counter is 0 after construction; initialize leaves it
\* as it is; it only grows with the records processed and finalize reports it.
C9_CounterSetAtConstruction ==
  /\ (lastOp = "__init__" /\ alive) => _count = 0
  /\ lastOp = "initialize" => _count = prev.count
  /\ lastOp = "process" => _count >= prev.count
  /\ lastOp = "finalize" => reported = _count /\ _count = prev.count

\* C9 witness: a second initialize returned with characters counted before it.
C9_Witness ==
  /\ lastOp = "initialize" /\ raised = None
  /\ prev.client # None
  /\ _count > 0

\* C10: the constructor raises exactly when the location argument holds a
\* name outside the enumeration; a str or a list of valid names is accepted.
C10_Original ==
  lastOp = "__init__" =>
    (raised # None <=> ~(Names(ctorLocation) \subseteq LOCATIONS))

====
